---- MODULE Spec2Model ----
(***************************************************************************)
(* sql.mit.edu database models (database.py): the record store entities,   *)
(* the DDL statement builders, and the provisioning operations that use    *)
(* them.                                                                   *)
(***************************************************************************)
EXTENDS Integers, Sequences, FiniteSets, TLC

(***************************************************************************)
(* Text.  A text is a sequence of tokens.  A token is either one character *)
(* (percent, single quote, backquote, a letter) or a fragment of a         *)
(* statement template that holds none of the first three                   *)
(* ("CREATE DATABASE ", "@", ...).                                         *)
(***************************************************************************)
Percent == "%"

Quote == "'"

\* the backquote character, which a TLA+ string cannot hold
Backquote == "BACKQUOTE"

MaxLen == 2

Chars == {Percent, Quote, Backquote, "a"}

RECURSIVE StrOfLen(_)
StrOfLen(n) ==
    IF n = 0 THEN {<< >>}
    ELSE {Append(s, c) : s \in StrOfLen(n - 1), c \in Chars}

Str == UNION {StrOfLen(n) : n \in 0..MaxLen}

\* host part of a backend account: a name, or the MySQL wildcard
Hosts == {<<"localhost">>, <<Percent>>}

\* str.replace(old, new) for a one-character old
RECURSIVE replace(_, _, _)
replace(s, old, new) ==
    IF s = << >> THEN << >>
    ELSE (IF Head(s) = old THEN new ELSE <<Head(s)>>) \o replace(Tail(s), old, new)

formatify_identity(instr) == instr

formatify(instr) == replace(instr, Percent, <<Percent, Percent>>)

\* MySQL identifier preparer: backquotes around, inner backquote doubled
quote_identifier(value) == <<Backquote>> \o replace(value, Backquote, <<Backquote, Backquote>>) \o <<Backquote>>

\* String literal: single quotes around, inner single quote doubled
render_literal_value(value) == <<Quote>> \o replace(value, Quote, <<Quote, Quote>>) \o <<Quote>>

if_exists_always(ignore) == "IF EXISTS"

if_exists_never(ignore) == ""

if_exists(ignore) == IF ignore THEN "IF EXISTS" ELSE ""

\* the text each compiler builds with the % operator, before formatify
render_create_database(name) == <<"CREATE DATABASE ">> \o quote_identifier(name)

render_drop_database(name, ignore) ==
    <<"DROP DATABASE ", if_exists(ignore), " ">> \o quote_identifier(name)

render_create_user(name, host, passwd) ==
    <<"CREATE USER ">> \o render_literal_value(name) \o <<"@">>
        \o render_literal_value(host) \o <<" IDENTIFIED BY ">>
        \o render_literal_value(passwd)

render_drop_user(name, host) ==
    <<"DROP USER ">> \o render_literal_value(name) \o <<"@">>
        \o render_literal_value(host)

render_change_password(name, host, passwd) ==
    <<"SET PASSWORD FOR ">> \o render_literal_value(name) \o <<"@">>
        \o render_literal_value(host) \o <<" = PASSWORD(">>
        \o render_literal_value(passwd) \o <<")">>

render_grant(db, user, host) ==
    <<"GRANT ALL ON ">> \o quote_identifier(db) \o <<".* TO ">>
        \o render_literal_value(user) \o <<"@">> \o render_literal_value(host)

render_revoke(db, user, host) ==
    <<"REVOKE ALL ON ">> \o quote_identifier(db) \o <<".* FROM ">>
        \o render_literal_value(user) \o <<"@">> \o render_literal_value(host)

visit_create_database(name) == formatify(render_create_database(name))

visit_drop_database(name, ignore) == formatify(render_drop_database(name, ignore))

visit_create_user(name, host, passwd) == formatify(render_create_user(name, host, passwd))

visit_drop_user(name, host) == formatify(render_drop_user(name, host))

visit_change_password(name, host, passwd) ==
    formatify(render_change_password(name, host, passwd))

visit_grant(db, user, host) == formatify(render_grant(db, user, host))

visit_revoke(db, user, host) == formatify(render_revoke(db, user, host))

(***************************************************************************)
(* State.                                                                  *)
(*   tblUser .. tblDBOwner   the rows of the six tables                    *)
(*   autoUserId, autoDatabaseId   next autoincrement value of each key     *)
(*   backendDBs, backendUsers   the databases and accounts on the server   *)
(*   pc         the provisioning operation in flight and its next step     *)
(*   result     the outcome of the latest step                             *)
(*   executed   the statements handed to the executor by the latest step   *)
(*   element    the arguments of the DDL element under compilation         *)
(*   compiled   the text the compiler returned for it                      *)
(***************************************************************************)
VARIABLES tblUser, tblUserQuota, tblUserStat, tblDB, tblDBQuota, tblDBOwner,
          autoUserId, autoDatabaseId,
          backendDBs, backendUsers,
          pc, result, executed,
          element, compiled

tables == <<tblUser, tblUserQuota, tblUserStat, tblDB, tblDBQuota, tblDBOwner>>

autos == <<autoUserId, autoDatabaseId>>

backend == <<backendDBs, backendUsers>>

ddl == <<element, compiled>>

vars == <<tables, autos, backend, pc, result, executed, ddl>>

(***************************************************************************)
(* Bounds and input sets.                                                  *)
(***************************************************************************)
MaxUserId == 2

MaxDatabaseId == 2

MaxQuota == 1

Usernames == {"u1"}

DbNames == {"d1", "d2"}

(***************************************************************************)
(* Entities: what each constructor sets.  Timestamps and the encoded       *)
(* password are not modelled.                                              *)
(***************************************************************************)
DBQuota(database) ==
    [DatabaseId |-> database, nBytesSoft |-> 0, nBytesHard |-> 0]

DBOwner_group1(user, database) ==
    [DatabaseId |-> database, UserId |-> user, GroupId |-> 1]

DBOwner(user, database) ==
    [DatabaseId |-> database, UserId |-> user, GroupId |-> 0]

Database(id, Name) ==
    [DatabaseId |-> id, Name |-> Name, nBytes |-> 0, bEnabled |-> 1]

UserQuota_softAboveHard(user) ==
    [UserId |-> user, nDatabasesHard |-> 20,
     nBytesSoft |-> 100 * 1024 * 1024, nBytesHard |-> 90 * 1024 * 1024]

UserQuota(user) ==
    [UserId |-> user, nDatabasesHard |-> 20,
     nBytesSoft |-> 90 * 1024 * 1024, nBytesHard |-> 100 * 1024 * 1024]

UserStat(user) ==
    [UserId |-> user, nDatabases |-> 0, nBytes |-> 0]

User(id, Username) ==
    [UserId |-> id, Username |-> Username, UL |-> 1, bEnabled |-> 1]

(***************************************************************************)
(* Relationships with cascade='all': the child rows a delete of the parent *)
(* takes with it.                                                          *)
(***************************************************************************)
Database_quota_nocascade(d) == {}

Database_quota(d) == {q \in tblDBQuota : q.DatabaseId = d.DatabaseId}

Database_owner(d) == {o \in tblDBOwner : o.DatabaseId = d.DatabaseId}

User_quota(u) == {q \in tblUserQuota : q.UserId = u.UserId}

User_stat(u) == {s \in tblUserStat : s.UserId = u.UserId}

User_databases(u) == {o \in tblDBOwner : o.UserId = u.UserId}

Database_Name_notUnique(Name) == TRUE

\* Name = Column(VARCHAR(200), unique=True): an insert of a taken Name fails
Database_Name_unique(Name) == \A d \in tblDB : d.Name # Name

\* Username = Column(VARCHAR(200), unique=True)
User_Username_unique(Username) == \A u \in tblUser : u.Username # Username

(***************************************************************************)
(* Record Store: lookups, inserts and cascading deletes.                   *)
(***************************************************************************)
UsersNamed(Username) == {u \in tblUser : u.Username = Username}

DatabasesNamed(Name) == {d \in tblDB : d.Name = Name}

UserIdOf(Username) == (CHOOSE u \in tblUser : u.Username = Username).UserId

QuotaOf(user) == CHOOSE q \in tblUserQuota : q.UserId = user

StatOf(user) == CHOOSE s \in tblUserStat : s.UserId = user

\* session.delete(database) for every row of that name, with its cascades
DeleteDatabases(Name) ==
    LET gone == DatabasesNamed(Name) IN
    /\ tblDB' = tblDB \ gone
    /\ tblDBQuota' = tblDBQuota \ UNION {Database_quota(d) : d \in gone}
    /\ tblDBOwner' = tblDBOwner \ UNION {Database_owner(d) : d \in gone}
    /\ UNCHANGED <<tblUser, tblUserQuota, tblUserStat>>

\* session.delete(user) for every row of that name, with its cascades
DeleteUsers(Username) ==
    LET gone == UsersNamed(Username) IN
    /\ tblUser' = tblUser \ gone
    /\ tblUserQuota' = tblUserQuota \ UNION {User_quota(u) : u \in gone}
    /\ tblUserStat' = tblUserStat \ UNION {User_stat(u) : u \in gone}
    /\ tblDBOwner' = tblDBOwner \ UNION {User_databases(u) : u \in gone}
    /\ UNCHANGED <<tblDB, tblDBQuota>>

(***************************************************************************)
(* Quota Policy.                                                           *)
(***************************************************************************)
canCreateDatabase_atMost(user) ==
    StatOf(user).nDatabases <= QuotaOf(user).nDatabasesHard

canCreateDatabase(user) ==
    StatOf(user).nDatabases < QuotaOf(user).nDatabasesHard

(***************************************************************************)
(* DDL elements as the executor receives them, and what the server does    *)
(* with each.                                                              *)
(***************************************************************************)
Statement(stmt, clause, db, user) ==
    [stmt |-> stmt, clause |-> clause, db |-> db, user |-> user]

CreateDatabase(name) == Statement("CREATE DATABASE", "", name, "-")

DropDatabase(name, ignore) == Statement("DROP DATABASE", if_exists(ignore), name, "-")

CreateUser(name) == Statement("CREATE USER", "", "-", name)

DropUser(name) == Statement("DROP USER", "", "-", name)

Grant(db, user) == Statement("GRANT ALL", "", db, user)

\* the server accepts the statement
Accepts(st) ==
    CASE st.stmt = "CREATE DATABASE" -> st.db \notin backendDBs
      [] st.stmt = "DROP DATABASE"   -> st.db \in backendDBs \/ st.clause = "IF EXISTS"
      [] st.stmt = "CREATE USER"     -> st.user \notin backendUsers
      [] st.stmt = "DROP USER"       -> st.user \in backendUsers
      [] st.stmt = "GRANT ALL"       -> st.user \in backendUsers

\* the server's state after an accepted statement (the privileges an account
\* holds are not modelled)
Apply(st) ==
    /\ backendDBs' =
         CASE st.stmt = "CREATE DATABASE" -> backendDBs \cup {st.db}
           [] st.stmt = "DROP DATABASE"   -> backendDBs \ {st.db}
           [] OTHER                       -> backendDBs
    /\ backendUsers' =
         CASE st.stmt = "CREATE USER" -> backendUsers \cup {st.user}
           [] st.stmt = "DROP USER"   -> backendUsers \ {st.user}
           [] OTHER                   -> backendUsers

\* execute(renderedStatement): success changes the server, failure does not
Execute(st, ok) ==
    /\ executed' = <<st>>
    /\ ok = Accepts(st)
    /\ IF ok THEN Apply(st) ELSE UNCHANGED backend

(***************************************************************************)
(* Provisioning Engine.  Each operation runs as a call step that checks,   *)
(* the DDL steps, and a record step that writes the Record Store in one    *)
(* transaction; one operation is in flight at a time.  pc.missing notes    *)
(* that the DROP DATABASE of the operation in flight found no database.    *)
(***************************************************************************)
Idle ==
    [op |-> "idle", step |-> "idle", name |-> "-", user |-> "-",
     ignore |-> FALSE, missing |-> FALSE]

Begin(op, step, name, user, ignore) ==
    [op |-> op, step |-> step, name |-> name, user |-> user,
     ignore |-> ignore, missing |-> FALSE]

At(op, step) == pc.op = op /\ pc.step = step

Outcome(op, name, user, ignore, status) ==
    [op |-> op, name |-> name, user |-> user, ignore |-> ignore,
     missing |-> FALSE, status |-> status]

OutcomeOf(p, status) ==
    [op |-> p.op, name |-> p.name, user |-> p.user, ignore |-> p.ignore,
     missing |-> p.missing, status |-> status]

Done(status) ==
    /\ result' = OutcomeOf(pc, status)
    /\ pc' = Idle

Goto(p) ==
    /\ result' = OutcomeOf(p, "Pending")
    /\ pc' = p

\* the order of the steps of CreateDatabase: the backend statements first, the
\* records once they are confirmed
CreateDatabase_order_recordFirst == <<"record", "create", "grant">>

CreateDatabase_order == <<"create", "grant", "record">>

\* the step has succeeded: on to the next one, or the operation is complete
Proceed(order) ==
    LET i == CHOOSE k \in 1..Len(order) : order[k] = pc.step IN
    IF i = Len(order) THEN Done("OK") ELSE Goto([pc EXCEPT !.step = order[i + 1]])

\* ---- CreateUser(username, password, name, email)
CreateUser_call(username) ==
    /\ pc = Idle
    /\ User_Username_unique(username) => autoUserId <= MaxUserId
    /\ executed' = << >>
    /\ UNCHANGED <<tables, autos, backend, ddl>>
    /\ IF ~User_Username_unique(username)
       THEN /\ result' = Outcome("CreateUser", "-", username, FALSE, "DuplicateUsername")
            /\ pc' = Idle
       ELSE Goto(Begin("CreateUser", "ddl", "-", username, FALSE))

CreateUser_ddl ==
    /\ At("CreateUser", "ddl")
    /\ \E ok \in BOOLEAN :
         /\ Execute(CreateUser(pc.user), ok)
         /\ IF ok THEN Goto([pc EXCEPT !.step = "record"])
                  ELSE Done("BackendExecutionFailed")
    /\ UNCHANGED <<tables, autos, ddl>>

CreateUser_record ==
    /\ At("CreateUser", "record")
    /\ executed' = << >>
    /\ UNCHANGED <<tblDB, tblDBQuota, tblDBOwner, autoDatabaseId, backend, ddl>>
    /\ IF ~User_Username_unique(pc.user)
       THEN /\ Done("DuplicateUsername")
            /\ UNCHANGED <<tblUser, tblUserQuota, tblUserStat, autoUserId>>
       ELSE /\ tblUser' = tblUser \cup {User(autoUserId, pc.user)}
            /\ tblUserQuota' = tblUserQuota \cup {UserQuota(autoUserId)}
            /\ tblUserStat' = tblUserStat \cup {UserStat(autoUserId)}
            /\ autoUserId' = autoUserId + 1
            /\ Done("OK")

\* ---- CreateDatabase(name, owningUser)
CreateDatabase_call(name, owningUser) ==
    /\ pc = Idle
    /\ owningUser \in {u.Username : u \in tblUser}
    /\ (canCreateDatabase(UserIdOf(owningUser)) /\ Database_Name_unique(name))
         => autoDatabaseId <= MaxDatabaseId
    /\ executed' = << >>
    /\ UNCHANGED <<tables, autos, backend, ddl>>
    /\ IF ~canCreateDatabase(UserIdOf(owningUser))
       THEN /\ result' = Outcome("CreateDatabase", name, owningUser, FALSE, "QuotaExceeded")
            /\ pc' = Idle
       ELSE IF ~Database_Name_unique(name)
       THEN /\ result' = Outcome("CreateDatabase", name, owningUser, FALSE,
                                 "DuplicateDatabaseName")
            /\ pc' = Idle
       ELSE Goto(Begin("CreateDatabase", CreateDatabase_order[1], name, owningUser, FALSE))

CreateDatabase_create ==
    /\ At("CreateDatabase", "create")
    /\ \E ok \in BOOLEAN :
         /\ Execute(CreateDatabase(pc.name), ok)
         /\ IF ok THEN Proceed(CreateDatabase_order) ELSE Done("BackendExecutionFailed")
    /\ UNCHANGED <<tables, autos, ddl>>

CreateDatabase_grant ==
    /\ At("CreateDatabase", "grant")
    /\ \E ok \in BOOLEAN :
         /\ Execute(Grant(pc.name, pc.user), ok)
         /\ IF ok THEN Proceed(CreateDatabase_order) ELSE Done("BackendExecutionFailed")
    /\ UNCHANGED <<tables, autos, ddl>>

CreateDatabase_record ==
    /\ At("CreateDatabase", "record")
    /\ executed' = << >>
    /\ UNCHANGED <<tblUser, tblUserQuota, tblUserStat, autoUserId, backend, ddl>>
    /\ IF ~Database_Name_unique(pc.name)
       THEN /\ Done("DuplicateDatabaseName")
            /\ UNCHANGED <<tblDB, tblDBOwner, tblDBQuota, autoDatabaseId>>
       ELSE /\ tblDB' = tblDB \cup {Database(autoDatabaseId, pc.name)}
            /\ tblDBOwner' = tblDBOwner \cup {DBOwner(UserIdOf(pc.user), autoDatabaseId)}
            /\ tblDBQuota' = tblDBQuota \cup {DBQuota(autoDatabaseId)}
            /\ autoDatabaseId' = autoDatabaseId + 1
            /\ Proceed(CreateDatabase_order)

\* ---- DropDatabase(database, ignoreIfMissing)
DropDatabase_call(name, ignore) ==
    /\ pc = Idle
    /\ executed' = << >>
    /\ Goto(Begin("DropDatabase", "ddl", name, "-", ignore))
    /\ UNCHANGED <<tables, autos, backend, ddl>>

DropDatabase_ddl ==
    /\ At("DropDatabase", "ddl")
    /\ \E ok \in BOOLEAN :
         /\ Execute(DropDatabase(pc.name, pc.ignore), ok)
         /\ IF ok THEN Goto([pc EXCEPT !.step = "record",
                                       !.missing = pc.name \notin backendDBs])
                  ELSE Done("BackendExecutionFailed")
    /\ UNCHANGED <<tables, autos, ddl>>

DropDatabase_record ==
    /\ At("DropDatabase", "record")
    /\ DeleteDatabases(pc.name)
    /\ executed' = << >>
    /\ Done("OK")
    /\ UNCHANGED <<autos, backend, ddl>>

\* ---- DropUser(user)
DropUser_call(username) ==
    /\ pc = Idle
    /\ executed' = << >>
    /\ Goto(Begin("DropUser", "ddl", "-", username, FALSE))
    /\ UNCHANGED <<tables, autos, backend, ddl>>

DropUser_ddl ==
    /\ At("DropUser", "ddl")
    /\ \E ok \in BOOLEAN :
         /\ Execute(DropUser(pc.user), ok)
         /\ IF ok THEN Goto([pc EXCEPT !.step = "record"])
                  ELSE Done("BackendExecutionFailed")
    /\ UNCHANGED <<tables, autos, ddl>>

DropUser_record ==
    /\ At("DropUser", "record")
    /\ DeleteUsers(pc.user)
    /\ executed' = << >>
    /\ Done("OK")
    /\ UNCHANGED <<autos, backend, ddl>>

\* ---- the operation in flight stops between two of its steps
Crash ==
    /\ pc # Idle
    /\ executed' = << >>
    /\ Done("Crashed")
    /\ UNCHANGED <<tables, autos, backend, ddl>>

\* ---- administrative quota change (external)
SetQuota(username, n) ==
    /\ pc = Idle
    /\ username \in {u.Username : u \in tblUser}
    /\ LET q == QuotaOf(UserIdOf(username)) IN
         tblUserQuota' = (tblUserQuota \ {q}) \cup {[q EXCEPT !.nDatabasesHard = n]}
    /\ executed' = << >>
    /\ result' = Outcome("SetQuota", "-", username, FALSE, "OK")
    /\ UNCHANGED <<tblUser, tblUserStat, tblDB, tblDBQuota, tblDBOwner,
                   autos, backend, pc, ddl>>

\* ---- usage-accounting job (external): recounts the databases a user owns
UsageScan(username) ==
    /\ pc = Idle
    /\ username \in {u.Username : u \in tblUser}
    /\ LET s == StatOf(UserIdOf(username))
           n == Cardinality({o \in tblDBOwner : o.UserId = s.UserId}) IN
         tblUserStat' = (tblUserStat \ {s}) \cup {[s EXCEPT !.nDatabases = n]}
    /\ executed' = << >>
    /\ result' = Outcome("UsageScan", "-", username, FALSE, "OK")
    /\ UNCHANGED <<tblUser, tblUserQuota, tblDB, tblDBQuota, tblDBOwner,
                   autos, backend, pc, ddl>>

(***************************************************************************)
(* DDL Statement Builder: the compiler of each DDL element, applied to an  *)
(* element whose arguments are drawn from Str and Hosts.  CreateDatabase,  *)
(* DropDatabase, CreateUser, DropUser and ChangePassword read name; Grant  *)
(* and Revoke read name as db and passwd as user.                          *)
(***************************************************************************)
NoElement == [name |-> << >>, host |-> << >>, passwd |-> << >>, ignore |-> FALSE]

NotCompiled == [stmt |-> "none", text |-> << >>]

Init ==
    /\ tblUser = {} /\ tblUserQuota = {} /\ tblUserStat = {}
    /\ tblDB = {} /\ tblDBQuota = {} /\ tblDBOwner = {}
    /\ autoUserId = 1 /\ autoDatabaseId = 1
    /\ backendDBs = {} /\ backendUsers = {}
    /\ pc = Idle
    /\ result = Outcome("idle", "-", "-", FALSE, "OK")
    /\ executed = << >>
    /\ element = NoElement
    /\ compiled = NotCompiled

Next ==
    \/ \E username \in Usernames : CreateUser_call(username)
    \/ CreateUser_ddl
    \/ CreateUser_record
    \/ \E name \in DbNames, owningUser \in Usernames : CreateDatabase_call(name, owningUser)
    \/ CreateDatabase_create
    \/ CreateDatabase_grant
    \/ CreateDatabase_record
    \/ \E name \in DbNames, ignore \in BOOLEAN : DropDatabase_call(name, ignore)
    \/ DropDatabase_ddl
    \/ DropDatabase_record
    \/ \E username \in Usernames : DropUser_call(username)
    \/ DropUser_ddl
    \/ DropUser_record
    \/ Crash
    \/ \E username \in Usernames, n \in 0..MaxQuota : SetQuota(username, n)
    \/ \E username \in Usernames : UsageScan(username)

Spec == Init /\ [][Next]_vars

Elements == [name : Str, host : Hosts, passwd : Str, ignore : BOOLEAN]

Compile(stmt, text) ==
    /\ compiled = NotCompiled
    /\ compiled' = [stmt |-> stmt, text |-> text]
    /\ UNCHANGED <<tables, autos, backend, pc, result, executed, element>>

compile_CreateDatabase == Compile("CreateDatabase", visit_create_database(element.name))

compile_DropDatabase ==
    Compile("DropDatabase", visit_drop_database(element.name, element.ignore))

compile_CreateUser ==
    Compile("CreateUser", visit_create_user(element.name, element.host, element.passwd))

compile_DropUser == Compile("DropUser", visit_drop_user(element.name, element.host))

compile_ChangePassword ==
    Compile("ChangePassword",
            visit_change_password(element.name, element.host, element.passwd))

compile_Grant == Compile("Grant", visit_grant(element.name, element.passwd, element.host))

compile_Revoke == Compile("Revoke", visit_revoke(element.name, element.passwd, element.host))

InitDDL ==
    /\ tblUser = {} /\ tblUserQuota = {} /\ tblUserStat = {}
    /\ tblDB = {} /\ tblDBQuota = {} /\ tblDBOwner = {}
    /\ autoUserId = 1 /\ autoDatabaseId = 1
    /\ backendDBs = {} /\ backendUsers = {}
    /\ pc = Idle
    /\ result = Outcome("idle", "-", "-", FALSE, "OK")
    /\ executed = << >>
    /\ element \in Elements
    /\ compiled = NotCompiled

NextDDL ==
    \/ compile_CreateDatabase
    \/ compile_DropDatabase
    \/ compile_CreateUser
    \/ compile_DropUser
    \/ compile_ChangePassword
    \/ compile_Grant
    \/ compile_Revoke

SpecDDL == InitDDL /\ [][NextDDL]_vars

(***************************************************************************)
(* Properties.                                                             *)
(***************************************************************************)
UserIds == {u.UserId : u \in tblUser}

DatabaseIds == {d.DatabaseId : d \in tblDB}

DeletedUserIds == (1..(autoUserId - 1)) \ UserIds

DeletedDatabaseIds == (1..(autoDatabaseId - 1)) \ DatabaseIds

\* the records whose backend database is missing
StaleDatabases == {d \in tblDB : d.Name \notin backendDBs}

\* C2 as claimed: in every reachable state each Database record has a backend
\* database of the same name.
C2_RecordHasBackend == StaleDatabases = {}

\* C2 as amended: a Database record loses its backend database only in the step
\* in which DropDatabase executes DROP DATABASE for its name; no step of
\* CreateDatabase, and no other step, makes a record without a backend database.
C2_StaleOnlyByDrop ==
    [][\A d \in StaleDatabases' :
          \/ d \in StaleDatabases
          \/ /\ At("DropDatabase", "ddl")
             /\ executed' = <<DropDatabase(d.Name, pc.ignore)>>
             /\ pc.name = d.Name
             /\ d \in tblDB]_vars

C2_Witness ==
    /\ StaleDatabases # {}
    /\ result.op = "DropDatabase" /\ result.status = "Crashed"
    /\ \E n \in backendDBs : DatabasesNamed(n) = {}

\* C3: a CreateDatabase called while the owning user's nDatabases is not below
\* nDatabasesHard fails with QuotaExceeded, changes no table, and hands no
\* statement to the executor.
C3_QuotaExceededNoMutation ==
    [][\A u \in tblUser :
          (/\ pc = Idle
           /\ result'.op = "CreateDatabase"
           /\ result'.user = u.Username
           /\ StatOf(u.UserId).nDatabases >= QuotaOf(u.UserId).nDatabasesHard)
          => /\ result'.status = "QuotaExceeded"
             /\ pc' = Idle
             /\ executed' = << >>
             /\ UNCHANGED <<tables, autos, backend>>]_vars

C3_Witness ==
    /\ result.op = "CreateDatabase" /\ result.status = "QuotaExceeded"
    /\ DatabasesNamed(result.name) = {}
    /\ \E u \in tblUser :
         /\ u.Username = result.user
         /\ QuotaOf(u.UserId).nDatabasesHard > 0
         /\ StatOf(u.UserId).nDatabases = QuotaOf(u.UserId).nDatabasesHard

NamesUnique == \A d1, d2 \in tblDB : d1.Name = d2.Name => d1 = d2

\* C4 as claimed: a CreateDatabase of a name that has a Database row fails with
\* DuplicateDatabaseName for any user, exactly one row of that name exists
\* afterwards, and no two rows ever share a Name.
C4_DuplicateForAnyUser ==
    [][/\ NamesUnique'
       /\ (/\ pc = Idle
           /\ result'.op = "CreateDatabase"
           /\ DatabasesNamed(result'.name) # {})
          => /\ result'.status = "DuplicateDatabaseName"
             /\ Cardinality({d \in tblDB' : d.Name = result'.name}) = 1]_vars

\* C4 as amended: such a CreateDatabase fails with DuplicateDatabaseName when
\* the user's nDatabases is below nDatabasesHard and with QuotaExceeded when it
\* is not; either way exactly one row of that name exists afterwards, and no
\* two rows ever share a Name.
C4_DuplicateUnlessQuota ==
    [][/\ NamesUnique'
       /\ \A u \in tblUser :
            (/\ pc = Idle
             /\ result'.op = "CreateDatabase"
             /\ result'.user = u.Username
             /\ DatabasesNamed(result'.name) # {})
            => /\ result'.status =
                    IF StatOf(u.UserId).nDatabases < QuotaOf(u.UserId).nDatabasesHard
                    THEN "DuplicateDatabaseName" ELSE "QuotaExceeded"
               /\ pc' = Idle
               /\ Cardinality({d \in tblDB' : d.Name = result'.name}) = 1]_vars

C4_Witness ==
    /\ result.op = "CreateDatabase" /\ result.status = "DuplicateDatabaseName"
    /\ Cardinality(DatabasesNamed(result.name)) = 1
    /\ pc = Idle

\* C5: a DropDatabase without ignoreIfMissing whose backend database does not
\* exist fails when it executes DROP DATABASE, its record step never runs, and
\* every row of every table is still there.
C5_FailedDropKeepsRows ==
    [][(/\ At("DropDatabase", "ddl")
        /\ ~pc.ignore
        /\ pc.name \notin backendDBs
        /\ executed' # << >>)
       => /\ result'.status = "BackendExecutionFailed"
          /\ pc' = Idle
          /\ UNCHANGED <<tables, backend>>]_vars

C5_Witness ==
    /\ result.op = "DropDatabase" /\ ~result.ignore
    /\ result.status = "BackendExecutionFailed"
    /\ result.name \notin backendDBs
    /\ \E d \in DatabasesNamed(result.name) :
         /\ \E q \in tblDBQuota : q.DatabaseId = d.DatabaseId
         /\ \E o \in tblDBOwner : o.DatabaseId = d.DatabaseId

\* C6: a DropDatabase with ignoreIfMissing whose backend database does not
\* exist gets no error from DROP DATABASE and goes on to its record step, and
\* once it has completed no Database row has that name.
C6_IgnoreMissingDrops ==
    [][/\ (/\ At("DropDatabase", "ddl")
           /\ pc.ignore
           /\ pc.name \notin backendDBs
           /\ executed' # << >>)
          => /\ result'.status = "Pending"
             /\ At("DropDatabase", "record")'
             /\ pc'.name = pc.name
       /\ (/\ At("DropDatabase", "record")
           /\ pc.ignore
           /\ pc.missing
           /\ result'.status # "Crashed")
          => /\ result'.status = "OK"
             /\ \A d \in tblDB' : d.Name # pc.name]_vars

\* the call found no backend database, removed a stale row, and completed
C6_Witness ==
    /\ result.op = "DropDatabase" /\ result.ignore /\ result.missing
    /\ result.status = "OK"
    /\ DatabasesNamed(result.name) = {}
    /\ DeletedDatabaseIds # {}
    /\ backendDBs = {}

\* C7: no DBQuota or DBOwner row carries the DatabaseId of a deleted Database,
\* and no UserQuota, UserStat or DBOwner row carries the UserId of a deleted
\* User.
C7_NoDanglingRows ==
    /\ \A q \in tblDBQuota : q.DatabaseId \notin DeletedDatabaseIds
    /\ \A o \in tblDBOwner : o.DatabaseId \notin DeletedDatabaseIds
    /\ \A q \in tblUserQuota : q.UserId \notin DeletedUserIds
    /\ \A s \in tblUserStat : s.UserId \notin DeletedUserIds
    /\ \A o \in tblDBOwner : o.UserId \notin DeletedUserIds

C7_Witness ==
    /\ DeletedDatabaseIds # {}
    /\ DeletedUserIds # {}
    /\ tblDB # {}
    /\ result.op = "DropUser" /\ result.status = "OK"

\* C8: the step that adds a Database row is the completing step of a
\* CreateDatabase, and it adds exactly one DBOwner row for that database, with
\* the owning user's UserId and GroupId 0; a CreateDatabase that completes
\* has added such a row.
C8_OwnerCreatedWithDatabase ==
    [][/\ \A d \in tblDB' \ tblDB :
            /\ At("CreateDatabase", "record")
            /\ result'.status = "OK"
            /\ d.Name = pc.name
            /\ {o \in tblDBOwner' : o.DatabaseId = d.DatabaseId}
                 = {[DatabaseId |-> d.DatabaseId,
                     UserId |-> UserIdOf(pc.user),
                     GroupId |-> 0]}
       /\ (pc.op = "CreateDatabase" /\ result'.status = "OK")
          => \E d \in tblDB' \ tblDB : d.Name = pc.name]_vars

C8_Witness ==
    /\ result.op = "CreateDatabase" /\ result.status = "OK"
    /\ \E d \in DatabasesNamed(result.name) :
         /\ d.DatabaseId = autoDatabaseId - 1
         /\ Cardinality({o \in tblDBOwner : o.DatabaseId = d.DatabaseId}) = 1

\* C9: every UserQuota row is created with nDatabasesHard 20, nBytesSoft
\* 90 MiB and nBytesHard 100 MiB, and every DBQuota row with nBytesSoft 0 and
\* nBytesHard 0, so a fresh quota row has nBytesSoft <= nBytesHard.
C9_DefaultQuotas ==
    [][/\ \A q \in tblUserQuota' :
            (\A p \in tblUserQuota : p.UserId # q.UserId)
            => /\ q.nDatabasesHard = 20
               /\ q.nBytesSoft = 90 * 1024 * 1024
               /\ q.nBytesHard = 100 * 1024 * 1024
               /\ q.nBytesSoft <= q.nBytesHard
       /\ \A q \in tblDBQuota' :
            (\A p \in tblDBQuota : p.DatabaseId # q.DatabaseId)
            => /\ q.nBytesSoft = 0
               /\ q.nBytesHard = 0
               /\ q.nBytesSoft <= q.nBytesHard]_vars

C9_Witness ==
    /\ result.op = "CreateDatabase" /\ result.status = "OK"
    /\ Cardinality(tblUserQuota) = 1
    /\ Cardinality(tblDBQuota) = 2

\* number of '%' the text starts with
RECURSIVE LeadingPercents(_)
LeadingPercents(s) ==
    IF s = << >> \/ Head(s) # Percent THEN 0 ELSE 1 + LeadingPercents(Tail(s))

\* every maximal run of '%' has even length
RECURSIVE RunsEven(_)
RunsEven(s) ==
    IF s = << >> THEN TRUE
    ELSE IF Head(s) = Percent
         THEN LET k == LeadingPercents(s) IN
              k % 2 = 0 /\ RunsEven(SubSeq(s, k + 1, Len(s)))
         ELSE RunsEven(Tail(s))

\* each '%%' collapsed to '%', left to right
RECURSIVE Collapse(_)
Collapse(s) ==
    IF s = << >> THEN << >>
    ELSE IF Len(s) >= 2 /\ s[1] = Percent /\ s[2] = Percent
         THEN <<Percent>> \o Collapse(SubSeq(s, 3, Len(s)))
         ELSE <<Head(s)>> \o Collapse(Tail(s))

\* the template of a statement filled with the quoted arguments
Rendered(stmt, e) ==
    CASE stmt = "CreateDatabase" -> render_create_database(e.name)
      [] stmt = "DropDatabase"   -> render_drop_database(e.name, e.ignore)
      [] stmt = "CreateUser"     -> render_create_user(e.name, e.host, e.passwd)
      [] stmt = "DropUser"       -> render_drop_user(e.name, e.host)
      [] stmt = "ChangePassword" -> render_change_password(e.name, e.host, e.passwd)
      [] stmt = "Grant"          -> render_grant(e.name, e.passwd, e.host)
      [] stmt = "Revoke"         -> render_revoke(e.name, e.passwd, e.host)

\* C10: the text each of the seven compilers returns has only even runs of
\* '%', and collapsing each '%%' to '%' gives the rendered template.
C10_PercentDoubledOnce ==
    compiled # NotCompiled
    => /\ RunsEven(compiled.text)
       /\ Collapse(compiled.text) = Rendered(compiled.stmt, element)

C10_Witness ==
    /\ compiled.stmt = "CreateUser"
    /\ element.host = <<Percent>>
    /\ element.passwd = <<Percent, Percent>>
    /\ element.name = <<"a", Quote>>

====
